---------------------------- MODULE Spec2Model ----------------------------
(***************************************************************************)
(* Model of lector_obj (src/lector_obj/src/main.rs): the OBJ loader        *)
(* (resolve_idx, parse_face_vertex, triangulate_fan, load_obj) and the     *)
(* software rasteriser (Framebuffer, edge, fill_triangle).                 *)
(*                                                                         *)
(* Text is represented after tokenisation: a line is its tag and its       *)
(* whitespace-separated fields; a face-vertex token is the sequence of its *)
(* '/'-separated parts.  A part or field that would parse as a number is   *)
(* kept with the number it spells; one that would not is kept as such, so  *)
(* parsing is a partial function that can fail.                            *)
(***************************************************************************)
EXTENDS Integers, Sequences, FiniteSets, TLC

VARIABLES
    positions,  \* Mesh.positions : Vec<Vec3>
    texcoords,  \* Mesh.texcoords : Vec<Vec2>
    normals,    \* Mesh.normals   : Vec<Vec3>
    indices,    \* Mesh.indices   : Vec<(u32, Option<u32>, Option<u32>)>
    lineno,     \* number of lines taken from reader.lines() so far
    pc,         \* position of load_obj: "lines", "face" (token loop), "done"
    result,     \* what load_obj returned, once pc = "done"
    line,       \* the line being handled
    ntok,       \* face_tokens.len() of the face line being read
    poly,       \* poly of the face line being read
    fb,         \* the Framebuffer: [w, h, data]
    tri,        \* the screen triangle handed to fill_triangle
    nops,       \* number of frame-buffer operations performed
    zref,       \* per pixel, the history of its writes (see below)
    call,       \* the arguments of a call of parse_face_vertex
    ret         \* what that call returned

meshVars == <<positions, texcoords, normals, indices>>
loadVars == <<positions, texcoords, normals, indices, lineno, pc, result, line, ntok,
             poly>>
rastVars == <<fb, tri, nops, zref>>
parseVars == <<call, ret>>
vars == <<positions, texcoords, normals, indices, lineno, pc, result, line, ntok, poly,
          fb, tri, nops, zref, call, ret>>

-----------------------------------------------------------------------------
(* Bounds of the model.                                                    *)

\* Lines read from one source.
MaxLines == 3
\* Face-vertex tokens on one f line.
MaxTokens == 4
\* Largest magnitude of an index written in a face-vertex token.
MaxIdx == 2
\* Numeric fields written after a v / vt / vn tag.
MaxFields == 3
\* Length of a list handed to parse_face_vertex on its own.
MaxLen == 2

-----------------------------------------------------------------------------
(* Option<T>: None, or Some(x).                                            *)

None == <<>>
Some(x) == <<x>>
IsSome(o) == o # None
Unwrap(o) == o[1]

-----------------------------------------------------------------------------
(* Text after tokenisation.                                                *)

\* A '/'-separated part of a face-vertex token.
IntPart(n) == [k |-> "int", n |-> n]
EmptyPart == [k |-> "empty", n |-> 0]
BadPart == [k |-> "bad", n |-> 0]
IdxParts == {IntPart(n) : n \in -MaxIdx..MaxIdx} \cup {EmptyPart, BadPart}

\* token.split('/'): one, two or three parts.  parse_face_vertex treats the
\* three parts independently, so the tokens of a face line vary one part at a
\* time: any v alone; the first or the last position with any vt; and such a
\* v, a vt that is absent or the first texcoord, with any vn.
RefParts == {IntPart(1), IntPart(-1)}
Tokens ==
    {<<a>> : a \in IdxParts}
    \cup {<<a, b>> : a \in RefParts, b \in IdxParts}
    \cup {<<a, b, c>> : a \in RefParts, b \in {EmptyPart, IntPart(1)}, c \in IdxParts}

\* Every token of one, two or three parts.
AllTokens ==
    {<<a>> : a \in IdxParts}
    \cup {<<a, b>> : a \in IdxParts, b \in IdxParts}
    \cup {<<a, b, c>> : a \in IdxParts, b \in IdxParts, c \in IdxParts}

\* Tokens of the form "v" alone.
BareTokens == {<<a>> : a \in IdxParts}

\* A field of a v / vt / vn line: a float literal or something else.
FloatFields == {"1.0", "abc"}
SeqsUpTo(S, n) == UNION {[1..m -> S] : m \in 0..n}
FieldLists == SeqsUpTo(FloatFields, MaxFields)

\* Tags load_obj has no arm for, and what may follow them or a '#'.
OtherTags == {"g", "usemtl"}
RestOfLine == SeqsUpTo(FloatFields, 1)

\* str::parse::<i32>
ParseI32(p) == IF p.k = "int" THEN Some(p.n) ELSE None

\* str::parse::<f32>
ParseF32(s) == IF s = "1.0" THEN Some(1) ELSE None

-----------------------------------------------------------------------------
(* resolve_idx, parse_face_vertex, triangulate_fan.                        *)

\* resolve_idx with the upper bound test written `idx0 > len`.
resolve_idx_upper(obj_idx, len) ==
    IF len = 0 THEN None
    ELSE LET idx0 == IF obj_idx > 0 THEN obj_idx - 1 ELSE len + obj_idx
         IN  IF idx0 < 0 \/ idx0 > len THEN None ELSE Some(idx0)

\* resolve_idx with the `- 1` applied to negative indices too.
resolve_idx_shift(obj_idx, len) ==
    IF len = 0 THEN None
    ELSE LET idx0 == IF obj_idx > 0 THEN obj_idx - 1 ELSE len + obj_idx - 1
         IN  IF idx0 < 0 \/ idx0 >= len THEN None ELSE Some(idx0)

resolve_idx(obj_idx, len) ==
    IF len = 0 THEN None
    ELSE LET idx0 == IF obj_idx > 0 THEN obj_idx - 1 ELSE len + obj_idx
         IN  IF idx0 < 0 \/ idx0 >= len THEN None ELSE Some(idx0)

\* The vt (i = 2) or vn (i = 3) component: [fail |-> the function returns None,
\* val |-> the Option stored otherwise].
OptComponent(parts, i, len) ==
    IF Len(parts) >= i /\ parts[i].k # "empty"
    THEN LET n == ParseI32(parts[i])
         IN  IF n = None THEN [fail |-> TRUE, val |-> None]
             ELSE [fail |-> FALSE, val |-> resolve_idx(Unwrap(n), len)]
    ELSE [fail |-> FALSE, val |-> None]

parse_face_vertex(token, vlen, vtlen, vnlen) ==
    LET parts == token
        n0 == ParseI32(parts[1])
    IN  IF n0 = None THEN None
        ELSE LET v == resolve_idx(Unwrap(n0), vlen)
             IN  IF v = None THEN None
                 ELSE LET vt == OptComponent(parts, 2, vtlen)
                          vn == OptComponent(parts, 3, vnlen)
                      IN  IF vt.fail \/ vn.fail THEN None
                          ELSE Some(<<Unwrap(v), vt.val, vn.val>>)

\* for i in 2..poly.len() { tris.push([poly[0], poly[i-1], poly[i]]) }
RECURSIVE FanFrom(_, _, _)
FanFrom(p, i, tris) ==
    IF i >= Len(p) THEN tris
    ELSE FanFrom(p, i + 1, Append(tris, <<p[1], p[i], p[i + 1]>>))

\* A triangle strip in place of the fan: [poly[i-2], poly[i-1], poly[i]].
RECURSIVE StripFrom(_, _, _)
StripFrom(p, i, tris) ==
    IF i >= Len(p) THEN tris
    ELSE StripFrom(p, i + 1, Append(tris, <<p[i - 1], p[i], p[i + 1]>>))

triangulate_strip(p) == StripFrom(p, 2, <<>>)

triangulate_fan(p) == FanFrom(p, 2, <<>>)

\* for tri in tris { push tri[0]; push tri[1]; push tri[2] }
RECURSIVE PushTris(_, _)
PushTris(ix, tris) ==
    IF tris = <<>> THEN ix
    ELSE PushTris(Append(Append(Append(ix, tris[1][1]), tris[1][2]), tris[1][3]),
                  Tail(tris))

-----------------------------------------------------------------------------
(* parse_face_vertex called on its own: a token against lists of any       *)
(* length.                                                                 *)

NoReturn == [done |-> FALSE, val |-> None]

Parse ==
    /\ ~ret.done
    /\ ret' = [done |-> TRUE,
               val |-> parse_face_vertex(call.token, call.vlen, call.vtlen, call.vnlen)]
    /\ UNCHANGED <<call, loadVars, rastVars>>

-----------------------------------------------------------------------------
(* load_obj.  One action reads and handles one line; the token loop of an  *)
(* f line (lines 122-130) takes one action per token, pc = "face" between  *)
(* them.  line is the line being handled: [tag, args, n] with n the number *)
(* of fields after the tag; the tokens of an f line of three or more are   *)
(* drawn when the loop reaches them, so its args stay empty.               *)

NoResult == [tag |-> "none", msg |-> "", line |-> 0]
Ok == [tag |-> "ok", msg |-> "", line |-> 0]
Err(m, l) == [tag |-> "err", msg |-> m, line |-> l]

NoLine == [tag |-> "<none>", args |-> <<>>, n |-> 0]
Line(tag, args) == [tag |-> tag, args |-> args, n |-> Len(args)]

\* return Err(..): the loop is left, the mesh is dropped.
Fail(m, l) ==
    /\ result' = Err(m, l)
    /\ pc' = "done"
    /\ UNCHANGED <<positions, texcoords, normals, indices, ntok, poly>>

\* The next line is taken from the reader.
ReadLine(l) ==
    /\ pc = "lines"
    /\ lineno < MaxLines
    /\ lineno' = lineno + 1
    /\ line' = l

\* line.is_empty() after trim
BlankLine ==
    /\ ReadLine(Line("", <<>>))
    /\ UNCHANGED <<positions, texcoords, normals, indices, pc, result, ntok, poly>>
    /\ UNCHANGED <<rastVars, parseVars>>

\* line.starts_with('#')
CommentLine(xs) ==
    /\ ReadLine(Line("#", xs))
    /\ UNCHANGED <<positions, texcoords, normals, indices, pc, result, ntok, poly>>
    /\ UNCHANGED <<rastVars, parseVars>>

\* reader.lines() yields an Err
ReadError ==
    /\ ReadLine(NoLine)
    /\ Fail("Error de lectura", lineno + 1)
    /\ UNCHANGED <<rastVars, parseVars>>

\* The three-float arms: "v" and "vn".
Vec3Arm(xs, name) ==
    IF Len(xs) < 3 THEN [ok |-> FALSE, msg |-> name, val |-> <<>>]
    ELSE IF ParseF32(xs[1]) = None THEN [ok |-> FALSE, msg |-> name \o ".x", val |-> <<>>]
    ELSE IF ParseF32(xs[2]) = None THEN [ok |-> FALSE, msg |-> name \o ".y", val |-> <<>>]
    ELSE IF ParseF32(xs[3]) = None THEN [ok |-> FALSE, msg |-> name \o ".z", val |-> <<>>]
    ELSE [ok |-> TRUE, msg |-> "",
          val |-> <<Unwrap(ParseF32(xs[1])), Unwrap(ParseF32(xs[2])), Unwrap(ParseF32(xs[3]))>>]

Vec2Arm(xs) ==
    IF Len(xs) < 2 THEN [ok |-> FALSE, msg |-> "vt", val |-> <<>>]
    ELSE IF ParseF32(xs[1]) = None THEN [ok |-> FALSE, msg |-> "vt.u", val |-> <<>>]
    ELSE IF ParseF32(xs[2]) = None THEN [ok |-> FALSE, msg |-> "vt.v", val |-> <<>>]
    ELSE [ok |-> TRUE, msg |-> "",
          val |-> <<Unwrap(ParseF32(xs[1])), Unwrap(ParseF32(xs[2]))>>]

VLine(xs) ==
    /\ ReadLine(Line("v", xs))
    /\ LET r == Vec3Arm(xs, "v")
       IN  IF r.ok
           THEN /\ positions' = Append(positions, r.val)
                /\ UNCHANGED <<texcoords, normals, indices, pc, result, ntok, poly>>
           ELSE Fail(r.msg, lineno + 1)
    /\ UNCHANGED <<rastVars, parseVars>>

VtLine(xs) ==
    /\ ReadLine(Line("vt", xs))
    /\ LET r == Vec2Arm(xs)
       IN  IF r.ok
           THEN /\ texcoords' = Append(texcoords, r.val)
                /\ UNCHANGED <<positions, normals, indices, pc, result, ntok, poly>>
           ELSE Fail(r.msg, lineno + 1)
    /\ UNCHANGED <<rastVars, parseVars>>

\* The vn arm pushing onto mesh.positions.
VnLine_positions(xs) ==
    /\ ReadLine(Line("vn", xs))
    /\ LET r == Vec3Arm(xs, "vn")
       IN  IF r.ok
           THEN /\ positions' = Append(positions, r.val)
                /\ UNCHANGED <<texcoords, normals, indices, pc, result, ntok, poly>>
           ELSE Fail(r.msg, lineno + 1)
    /\ UNCHANGED <<rastVars, parseVars>>

VnLine(xs) ==
    /\ ReadLine(Line("vn", xs))
    /\ LET r == Vec3Arm(xs, "vn")
       IN  IF r.ok
           THEN /\ normals' = Append(normals, r.val)
                /\ UNCHANGED <<positions, texcoords, indices, pc, result, ntok, poly>>
           ELSE Fail(r.msg, lineno + 1)
    /\ UNCHANGED <<rastVars, parseVars>>

\* The f arm with the length test written `< 2`: a line of two tokens goes
\* through the token loop, and its empty fan pushes nothing.
FShort_two(toks) ==
    /\ Len(toks) < 3
    /\ ReadLine(Line("f", toks))
    /\ IF Len(toks) < 2
       THEN Fail("f con menos de 3", lineno + 1)
       ELSE IF \E i \in 1..Len(toks) :
                   parse_face_vertex(toks[i], Len(positions), Len(texcoords),
                                     Len(normals)) = None
       THEN Fail("Indice de cara invalido", lineno + 1)
       ELSE UNCHANGED <<positions, texcoords, normals, indices, pc, result, ntok, poly>>
    /\ UNCHANGED <<rastVars, parseVars>>

\* An f line with fewer than 3 tokens: rejected before any token is parsed.
FShort(toks) ==
    /\ Len(toks) < 3
    /\ ReadLine(Line("f", toks))
    /\ Fail("f con menos de 3", lineno + 1)
    /\ UNCHANGED <<rastVars, parseVars>>

\* An f line with n >= 3 tokens: the token loop is entered with an empty poly.
FBegin(n) ==
    /\ ~(n < 3)
    /\ ReadLine([tag |-> "f", args |-> <<>>, n |-> n])
    /\ ntok' = n
    /\ poly' = <<>>
    /\ pc' = "face"
    /\ UNCHANGED <<positions, texcoords, normals, indices, result>>
    /\ UNCHANGED <<rastVars, parseVars>>

\* One turn of `for t in &face_tokens`; after the last token the polygon is
\* triangulated and its triangles are pushed.
FToken(t) ==
    /\ pc = "face"
    /\ UNCHANGED <<lineno, line>>
    /\ LET v == parse_face_vertex(t, Len(positions), Len(texcoords), Len(normals))
       IN  IF v = None
           THEN Fail("Indice de cara invalido", lineno)
           ELSE LET p == Append(poly, Unwrap(v))
                IN  /\ poly' = p
                    /\ IF Len(p) = ntok
                       THEN /\ indices' = PushTris(indices, triangulate_fan(p))
                            /\ pc' = "lines"
                       ELSE UNCHANGED <<indices, pc>>
                    /\ UNCHANGED <<positions, texcoords, normals, result, ntok>>
    /\ UNCHANGED <<rastVars, parseVars>>

\* Any other tag: the `_ => {}` arm.
OtherLine(tag, xs) ==
    /\ ReadLine(Line(tag, xs))
    /\ UNCHANGED <<positions, texcoords, normals, indices, pc, result, ntok, poly>>
    /\ UNCHANGED <<rastVars, parseVars>>

\* The source is exhausted: Ok(mesh).
EndOfInput ==
    /\ pc = "lines"
    /\ result' = Ok
    /\ pc' = "done"
    /\ UNCHANGED <<positions, texcoords, normals, indices, lineno, line, ntok, poly>>
    /\ UNCHANGED <<rastVars, parseVars>>

-----------------------------------------------------------------------------
(* Framebuffer.  data holds w * h * 3 bytes, indexed from 0.               *)

Framebuffer_new(w, h) == [w |-> w, h |-> h, data |-> [i \in 0..(w * h * 3 - 1) |-> 0]]

\* put_pixel with x and y exchanged in the index.
put_pixel_transposed(f, x, y, r, g, b) ==
    IF x < 0 \/ y < 0 THEN f
    ELSE IF x >= f.w \/ y >= f.h THEN f
    ELSE LET idx == (x * f.w + y) * 3
         IN  [f EXCEPT !.data = [@ EXCEPT ![idx] = r, ![idx + 1] = g, ![idx + 2] = b]]

put_pixel(f, x, y, r, g, b) ==
    IF x < 0 \/ y < 0 THEN f
    ELSE IF x >= f.w \/ y >= f.h THEN f
    ELSE LET idx == (y * f.w + x) * 3
         IN  [f EXCEPT !.data = [@ EXCEPT ![idx] = r, ![idx + 1] = g, ![idx + 2] = b]]

\* for px in data.chunks_mut(3) { px[0] = r; px[1] = g; px[2] = b }
clear(f, r, g, b) ==
    [f EXCEPT !.data = [i \in DOMAIN @ |-> IF i % 3 = 0 THEN r
                                          ELSE IF i % 3 = 1 THEN g ELSE b]]

\* The colour bytes of pixel (x, y), which is in bounds.
Pixel(f, x, y) ==
    LET idx == (y * f.w + x) * 3
    IN  <<f.data[idx], f.data[idx + 1], f.data[idx + 2]>>

-----------------------------------------------------------------------------
(* edge and fill_triangle.  An f32 coordinate is held as its number of     *)
(* half pixels: a vertex at pixel coordinate k is 2k, the centre k + 0.5   *)
(* of pixel k is 2k + 1.  On such values the f32 arithmetic of edge is     *)
(* exact, and edge here is four times the edge of the code.                *)

edge(ax, ay, bx, by, px, py) == (px - ax) * (by - ay) - (py - ay) * (bx - ax)

Min2(a, b) == IF a < b THEN a ELSE b
Max2(a, b) == IF a > b THEN a ELSE b
\* f32::floor and f32::ceil of a value held in half pixels, in pixels.
Floor(v) == v \div 2
Ceil(v) == -((-v) \div 2)

\* The inside test with w1 taken along v0 -> v2 instead of v2 -> v0.
Covered_w1(t, x, y) ==
    LET px == 2 * x + 1
        py == 2 * y + 1
        area == edge(t[1][1], t[1][2], t[2][1], t[2][2], t[3][1], t[3][2])
        w0 == edge(t[2][1], t[2][2], t[3][1], t[3][2], px, py)
        w1 == edge(t[1][1], t[1][2], t[3][1], t[3][2], px, py)
        w2 == edge(t[1][1], t[1][2], t[2][1], t[2][2], px, py)
    IN  \/ (w0 >= 0 /\ w1 >= 0 /\ w2 >= 0 /\ area > 0)
        \/ (w0 <= 0 /\ w1 <= 0 /\ w2 <= 0 /\ area < 0)

\* The inside test of fill_triangle for pixel (x, y); t holds the three
\* vertices in half pixels.
Covered(t, x, y) ==
    LET px == 2 * x + 1
        py == 2 * y + 1
        area == edge(t[1][1], t[1][2], t[2][1], t[2][2], t[3][1], t[3][2])
        w0 == edge(t[2][1], t[2][2], t[3][1], t[3][2], px, py)
        w1 == edge(t[3][1], t[3][2], t[1][1], t[1][2], px, py)
        w2 == edge(t[1][1], t[1][2], t[2][1], t[2][2], px, py)
    IN  \/ (w0 >= 0 /\ w1 >= 0 /\ w2 >= 0 /\ area > 0)
        \/ (w0 <= 0 /\ w1 <= 0 /\ w2 <= 0 /\ area < 0)

\* The pixels of the two nested loops, in the order they are visited.
ScanOrder(min_x, max_x, min_y, max_y) ==
    IF max_x < min_x \/ max_y < min_y THEN <<>>
    ELSE LET nx == max_x - min_x + 1
             ny == max_y - min_y + 1
         IN  [k \in 1..(nx * ny) |-> <<min_x + ((k - 1) % nx), min_y + ((k - 1) \div nx)>>]

RECURSIVE FillLoop(_, _, _, _)
FillLoop(f, t, px, c) ==
    IF px = <<>> THEN f
    ELSE LET x == px[1][1]
             y == px[1][2]
         IN  FillLoop(IF Covered(t, x, y) THEN put_pixel(f, x, y, c[1], c[2], c[3]) ELSE f,
                      t, Tail(px), c)

\* fill_triangle without the test of the area: no early return, and an
\* inside test that only asks the three edge values to agree in sign.
Covered_nocull(t, x, y) ==
    LET px == 2 * x + 1
        py == 2 * y + 1
        w0 == edge(t[2][1], t[2][2], t[3][1], t[3][2], px, py)
        w1 == edge(t[3][1], t[3][2], t[1][1], t[1][2], px, py)
        w2 == edge(t[1][1], t[1][2], t[2][1], t[2][2], px, py)
    IN  \/ (w0 >= 0 /\ w1 >= 0 /\ w2 >= 0)
        \/ (w0 <= 0 /\ w1 <= 0 /\ w2 <= 0)

RECURSIVE FillLoop_nocull(_, _, _, _)
FillLoop_nocull(f, t, px, c) ==
    IF px = <<>> THEN f
    ELSE LET x == px[1][1]
             y == px[1][2]
         IN  FillLoop_nocull(IF Covered_nocull(t, x, y)
                             THEN put_pixel(f, x, y, c[1], c[2], c[3]) ELSE f,
                             t, Tail(px), c)

fill_triangle_nocull(f, t, c) ==
    LET min_x == Max2(Floor(Min2(Min2(t[1][1], t[2][1]), t[3][1])), 0)
        max_x == Min2(Ceil(Max2(Max2(t[1][1], t[2][1]), t[3][1])), f.w - 1)
        min_y == Max2(Floor(Min2(Min2(t[1][2], t[2][2]), t[3][2])), 0)
        max_y == Min2(Ceil(Max2(Max2(t[1][2], t[2][2]), t[3][2])), f.h - 1)
    IN  FillLoop_nocull(f, t, ScanOrder(min_x, max_x, min_y, max_y), c)

fill_triangle(f, t, c) ==
    LET min_x == Max2(Floor(Min2(Min2(t[1][1], t[2][1]), t[3][1])), 0)
        max_x == Min2(Ceil(Max2(Max2(t[1][1], t[2][1]), t[3][1])), f.w - 1)
        min_y == Max2(Floor(Min2(Min2(t[1][2], t[2][2]), t[3][2])), 0)
        max_y == Min2(Ceil(Max2(Max2(t[1][2], t[2][2]), t[3][2])), f.h - 1)
        area == edge(t[1][1], t[1][2], t[2][1], t[2][2], t[3][1], t[3][2])
    IN  IF area = 0 THEN f
        ELSE FillLoop(f, t, ScanOrder(min_x, max_x, min_y, max_y), c)

-----------------------------------------------------------------------------
(* The frame buffer in use.  Next to the code's buffer the model keeps, for *)
(* every pixel, the history the claims about depth speak of: zref[p].near  *)
(* and zref[p].depth are the colour and the depth of the first write of    *)
(* least depth since the last clear as spec 4.3 defines them (the code has *)
(* no depth plane), and zref[p].last is the colour of the latest write.    *)
(* A depth is a fraction <<num, den>> with den > 0; <<1, 0>> is +infinity. *)

\* Width and height of the modelled frame buffer, in pixels.
W == 2
H == 2
\* Frame-buffer operations in one behaviour of the pixel-write specification.
MaxOps == 4
\* Fills of the triangle in one behaviour of the raster specification.
MaxFills == 2

BG == <<16, 16, 20>>
C1 == <<255, 255, 0>>
C2 == <<0, 0, 255>>
C3 == <<255, 0, 0>>

Infinity == <<1, 0>>
DepthLess(a, b) == a[1] * b[2] < b[1] * a[2]

Pixels(f) == (0..(f.w - 1)) \X (0..(f.h - 1))
InBounds(f, x, y) == 0 <= x /\ x < f.w /\ 0 <= y /\ y < f.h

Unwritten == [depth |-> Infinity, near |-> <<>>, last |-> <<>>]
ZInit(f) == [p \in Pixels(f) |-> Unwritten]

\* The depth-tested write of spec 4.3 on the history of one pixel.
ZPut(z, d, c) ==
    IF DepthLess(d, z.depth) THEN [depth |-> d, near |-> c, last |-> c]
    ELSE [z EXCEPT !.last = c]

\* The writes offered to put_pixel: a colour, and the depth its caller means.
Writes == {[c |-> C1, d |-> 5], [c |-> C2, d |-> 3], [c |-> C3, d |-> 7]}

\* fb.clear(r, g, b)
Clear(c) ==
    /\ nops < MaxOps
    /\ fb' = clear(fb, c[1], c[2], c[3])
    /\ zref' = ZInit(fb)
    /\ nops' = nops + 1
    /\ UNCHANGED tri
    /\ UNCHANGED <<loadVars, parseVars>>

\* fb.put_pixel(x, y, r, g, b)
PutPixel(x, y, wr) ==
    /\ nops < MaxOps
    /\ fb' = put_pixel(fb, x, y, wr.c[1], wr.c[2], wr.c[3])
    /\ zref' = IF InBounds(fb, x, y)
               THEN [zref EXCEPT ![<<x, y>>] = ZPut(@, <<wr.d, 1>>, wr.c)]
               ELSE zref
    /\ nops' = nops + 1
    /\ UNCHANGED tri
    /\ UNCHANGED <<loadVars, parseVars>>

-----------------------------------------------------------------------------
(* Geometry of the claims about fill_triangle, stated without edge: the    *)
(* side of the line a -> b a point lies on, by the cross product.          *)

Side(a, b, p) == (b[1] - a[1]) * (p[2] - a[2]) - (b[2] - a[2]) * (p[1] - a[1])
Sign(n) == IF n > 0 THEN 1 ELSE IF n < 0 THEN -1 ELSE 0
Centre(x, y) == <<2 * x + 1, 2 * y + 1>>

\* p is strictly on the same side of a -> b as c.
SameSide(a, b, c, p) == Sign(Side(a, b, c)) # 0 /\ Sign(Side(a, b, p)) = Sign(Side(a, b, c))
OtherSide(a, b, c, p) == Sign(Side(a, b, c)) # 0 /\ Sign(Side(a, b, p)) = -Sign(Side(a, b, c))

StrictlyInside(t, x, y) ==
    /\ SameSide(t[1], t[2], t[3], Centre(x, y))
    /\ SameSide(t[2], t[3], t[1], Centre(x, y))
    /\ SameSide(t[3], t[1], t[2], Centre(x, y))

StrictlyOutside(t, x, y) ==
    \/ OtherSide(t[1], t[2], t[3], Centre(x, y))
    \/ OtherSide(t[2], t[3], t[1], Centre(x, y))
    \/ OtherSide(t[3], t[1], t[2], Centre(x, y))

Colinear(t) == Side(t[1], t[2], t[3]) = 0
\* Positive signed area, in the orientation of edge(v0, v1, v2).
PositiveArea(t) == edge(t[1][1], t[1][2], t[2][1], t[2][2], t[3][1], t[3][2]) > 0

\* The barycentric interpolation of the vertex depths z at the centre of
\* pixel (x, y), for a triangle that is not degenerate: a fraction.
InterpDepth(t, z, x, y) ==
    LET p == Centre(x, y)
        a == Side(t[1], t[2], t[3])
        b0 == Side(t[2], t[3], p)
        b1 == Side(t[3], t[1], p)
        b2 == Side(t[1], t[2], p)
        num == b0 * z[1] + b1 * z[2] + b2 * z[3]
    IN  IF a > 0 THEN <<num, a>> ELSE <<-num, -a>>

\* The fills offered: a flat colour, and the depths its caller means for the
\* three vertices.
Fills == {[c |-> C1, z |-> <<5, 5, 5>>], [c |-> C2, z |-> <<3, 7, 7>>]}

\* Screen triangles: vertices on pixel corners, from one pixel outside the
\* buffer on the low side to its far corner (which the bounding box clips),
\* in half pixels.
Vertices == {<<2 * x, 2 * y>> : x \in -1..W, y \in -1..H}
Triangles == Vertices \X Vertices \X Vertices

\* fill_triangle(&mut fb, x0, y0, x1, y1, x2, y2, r, g, b), after the clear
\* of main.
Fill(fl) ==
    /\ nops >= 1
    /\ nops <= MaxFills
    /\ fb' = fill_triangle(fb, tri, fl.c)
    /\ zref' = [p \in DOMAIN zref |->
                  IF ~Colinear(tri) /\ StrictlyInside(tri, p[1], p[2])
                  THEN ZPut(zref[p], InterpDepth(tri, fl.z, p[1], p[2]), fl.c)
                  ELSE zref[p]]
    /\ nops' = nops + 1
    /\ UNCHANGED tri
    /\ UNCHANGED <<loadVars, parseVars>>

\* fb.clear(16, 16, 20) of main, before the triangles.
FirstClear ==
    /\ nops = 0
    /\ Clear(BG)

-----------------------------------------------------------------------------
(* Specifications.                                                         *)

NoTriangle == <<<<0, 0>>, <<0, 0>>, <<0, 0>>>>

InitLoad ==
    /\ positions = <<>>
    /\ texcoords = <<>>
    /\ normals = <<>>
    /\ indices = <<>>
    /\ lineno = 0
    /\ pc = "lines"
    /\ result = NoResult
    /\ line = NoLine
    /\ ntok = 0
    /\ poly = <<>>

InitFb ==
    /\ fb = Framebuffer_new(W, H)
    /\ nops = 0
    /\ zref = ZInit(Framebuffer_new(W, H))

NoCall == [token |-> <<EmptyPart>>, vlen |-> 0, vtlen |-> 0, vnlen |-> 0]

InitParse ==
    /\ call = NoCall
    /\ ret = NoReturn

Init ==
    /\ InitLoad
    /\ InitFb
    /\ tri = NoTriangle
    /\ InitParse

\* load_obj on a source of up to MaxLines lines.
Next ==
    \/ BlankLine
    \/ \E xs \in RestOfLine : CommentLine(xs)
    \/ ReadError
    \/ \E xs \in FieldLists : VLine(xs)
    \/ \E xs \in FieldLists : VtLine(xs)
    \/ \E xs \in FieldLists : VnLine(xs)
    \/ \E toks \in SeqsUpTo(BareTokens, 2) : FShort(toks)
    \/ \E n \in 3..MaxTokens : FBegin(n)
    \/ \E t \in Tokens : FToken(t)
    \/ \E tag \in OtherTags, xs \in RestOfLine : OtherLine(tag, xs)
    \/ EndOfInput

Spec == Init /\ [][Next]_vars

\* A frame buffer that is cleared and written pixel by pixel.
NextFb ==
    \/ \E c \in {BG} : Clear(c)
    \/ \E x \in -1..W, y \in -1..H, wr \in Writes : PutPixel(x, y, wr)

SpecFb == Init /\ [][NextFb]_vars

\* The raster pass of main on one triangle: the clear, then fills.
InitRaster ==
    /\ InitLoad
    /\ InitFb
    /\ tri \in Triangles
    /\ InitParse

NextRaster ==
    \/ FirstClear
    \/ \E fl \in Fills : Fill(fl)

SpecRaster == InitRaster /\ [][NextRaster]_vars

\* One call of parse_face_vertex.
InitCall ==
    /\ InitLoad
    /\ InitFb
    /\ tri = NoTriangle
    /\ call \in [token : AllTokens, vlen : 0..MaxLen, vtlen : 0..MaxLen, vnlen : 0..MaxLen]
    /\ ret = NoReturn

NextCall == Parse

SpecParse == InitCall /\ [][NextCall]_vars

-----------------------------------------------------------------------------
(* Properties of load_obj.                                                 *)

\* An OBJ index n that falls within a list of len entries, and the 0-based
\* element it stands for.
InRange(n, len) == (n > 0 /\ n <= len) \/ (n < 0 /\ -n <= len)
Expected(n, len) == IF n > 0 THEN n - 1 ELSE len + n

\* C1: whenever load_obj has not reported an error, indices.len() is a
\* multiple of 3, every first index is < positions.len(), every present
\* second index is < texcoords.len() and every present third index is
\* < normals.len().
C1_MeshIndicesInRange ==
    result.tag # "err" =>
        /\ Len(indices) % 3 = 0
        /\ \A i \in 1..Len(indices) :
              /\ indices[i][1] >= 0 /\ indices[i][1] < Len(positions)
              /\ IsSome(indices[i][2]) =>
                    Unwrap(indices[i][2]) >= 0 /\ Unwrap(indices[i][2]) < Len(texcoords)
              /\ IsSome(indices[i][3]) =>
                    Unwrap(indices[i][3]) >= 0 /\ Unwrap(indices[i][3]) < Len(normals)

\* A mesh returned with a face whose vertices carry a texcoord or a normal.
C1_Witness ==
    /\ result.tag = "ok"
    /\ indices # <<>>
    /\ \E i \in 1..Len(indices) : IsSome(indices[i][2]) \/ IsSome(indices[i][3])

\* A numeric part that resolves outside [0, len), the index 0 included.
Unresolvable(p, len) == p.k = "int" /\ ~InRange(p.n, len)

\* A token with a component that cannot be resolved, or without its v.
UnresolvableToken(t) ==
    \/ t[1].k = "empty"
    \/ Unresolvable(t[1], Len(positions))
    \/ Len(t) >= 2 /\ Unresolvable(t[2], Len(texcoords))
    \/ Len(t) >= 3 /\ Unresolvable(t[3], Len(normals))

\* C2: a face-vertex token one of whose numeric components (v, vt or vn)
\* resolves outside its list as it stands, the index 0 included, or whose v
\* is missing, makes load_obj return an error; the token is never stored
\* with that component absent.
C2_UnresolvableIsFatal ==
    [][pc = "face" =>
          \A t \in Tokens :
              UnresolvableToken(t) /\ FToken(t) => result'.tag = "err" /\ poly' = poly]_vars

\* A line of v / vt / vn / f that offends by its fields alone.
ShortOrMalformed(xs, k) == Len(xs) < k \/ \E i \in 1..k : ParseF32(xs[i]) = None
OffendingLine(l) ==
    \/ l.tag \in {"v", "vn"} /\ ShortOrMalformed(l.args, 3)
    \/ l.tag = "vt" /\ ShortOrMalformed(l.args, 2)
    \/ l.tag = "f" /\ l.n < 3

\* A token that offends: a part that is not a number, or an index that
\* cannot be resolved.
OffendingToken(t) ==
    \/ UnresolvableToken(t)
    \/ \E i \in 1..Len(t) : t[i].k = "bad"

\* load_obj has returned an error for the line it read last.
StoppedAtLine == result.tag = "err" /\ result.line = lineno /\ pc = "done"

\* C4: at the first offending line (malformed numeric field, too few
\* components on v / vt / vn / f, unresolvable face index) load_obj stops: it
\* returns an error carrying that line's 1-based number, returns no mesh and
\* processes no later line.
C4_FirstOffendingLineStops ==
    [][/\ lineno' # lineno /\ OffendingLine(line') => StoppedAtLine'
       /\ pc = "face" =>
             \A t \in Tokens : OffendingToken(t) /\ FToken(t) => StoppedAtLine'
       /\ pc = "done" => UNCHANGED loadVars]_vars

\* The entries triangle-fan triangulation of p appends, in order:
\* (p0, p(i-1), p(i)) for i = 2 .. n-1.
FanExpected(p) ==
    [j \in 1..(3 * (Len(p) - 2)) |->
        LET i == 2 + ((j - 1) \div 3)
            r == (j - 1) % 3
        IN  IF r = 0 THEN p[1] ELSE IF r = 1 THEN p[i] ELSE p[i + 1]]

\* C6: a valid face line of n >= 3 tokens appends exactly 3 * (n - 2) entries
\* to indices, (p0, p(i-1), p(i)) for i = 2 .. n-1 in that order, after the
\* entries already present.
C6_FanAppended ==
    [][pc = "face" /\ pc' = "lines" =>
          /\ Len(poly') = ntok
          /\ Len(indices') = Len(indices) + 3 * (ntok - 2)
          /\ indices' = indices \o FanExpected(poly')]_vars

\* A quad has been triangulated, with vertices that tell a fan from a strip.
C6_Witness ==
    /\ pc = "lines"
    /\ line.tag = "f"
    /\ Len(poly) = 4
    /\ poly[1] # poly[2] /\ poly[2] # poly[3] /\ poly[3] # poly[4]
    /\ Len(indices) = 6
    /\ <<indices[4], indices[5], indices[6]>> = <<poly[1], poly[3], poly[4]>>

\* C9: an f line with fewer than 3 face-vertex tokens is a fatal parse error
\* for that line and appends nothing to indices, whether or not the tokens
\* present are valid.
C9_ShortFaceIsFatal ==
    [][lineno' # lineno /\ line'.tag = "f" /\ line'.n < 3 =>
          /\ result'.tag = "err"
          /\ result'.line = lineno'
          /\ pc' = "done"
          /\ indices' = indices]_vars

\* An f line of two tokens, both valid, has been rejected.
C9_Witness ==
    /\ line.tag = "f"
    /\ line.n = 2
    /\ \A i \in 1..2 :
          parse_face_vertex(line.args[i], Len(positions), Len(texcoords),
                            Len(normals)) # None
    /\ result.tag = "err"
    /\ result.line = lineno

\* C10: a blank line, a '#' line or a line of any other tag leaves positions,
\* texcoords, normals and indices unchanged and raises no error, whatever
\* follows the tag; a v line changes only positions, a vt line only
\* texcoords, a vn line only normals, an f line only indices.
C10_LineFrame ==
    [][lineno' # lineno \/ pc = "face" =>
          /\ line'.tag \in {"", "#"} \cup OtherTags =>
                UNCHANGED meshVars /\ result'.tag # "err" /\ pc' = "lines"
          /\ line'.tag = "v" => UNCHANGED <<texcoords, normals, indices>>
          /\ line'.tag = "vt" => UNCHANGED <<positions, normals, indices>>
          /\ line'.tag = "vn" => UNCHANGED <<positions, texcoords, indices>>
          /\ line'.tag = "f" => UNCHANGED <<positions, texcoords, normals>>]_vars

\* A mesh with positions, texcoords or normals read, and an ignored line with
\* text after its tag read after them.
C10_Witness ==
    /\ line.tag \in OtherTags
    /\ line.args # <<>>
    /\ positions # <<>>
    /\ normals # <<>>
    /\ result.tag = "none"

-----------------------------------------------------------------------------
(* Properties of parse_face_vertex and resolve_idx.                        *)

\* The component a part of the call's token stands for, when it is absent or
\* within its list.
Resolvable(parts, i, len) ==
    Len(parts) >= i /\ parts[i].k # "empty" => parts[i].k = "int" /\ InRange(parts[i].n, len)
ExpectedComponent(parts, i, len) ==
    IF Len(parts) >= i /\ parts[i].k # "empty" THEN Some(Expected(parts[i].n, len)) ELSE None

\* C5: against a list of n >= 1 entries, the negative index -k (k in 1..n)
\* resolves to n - k, the element the positive index n - k + 1 resolves to,
\* and a positive index i in 1..n resolves to i - 1; n is the length of the
\* list at the call.
C5_IndexResolution ==
    /\ ret.done
    /\ call.token[1].k = "int" /\ InRange(call.token[1].n, call.vlen)
    /\ Resolvable(call.token, 2, call.vtlen)
    /\ Resolvable(call.token, 3, call.vnlen)
    => ret.val = Some(<<Expected(call.token[1].n, call.vlen),
                           ExpectedComponent(call.token, 2, call.vtlen),
                           ExpectedComponent(call.token, 3, call.vnlen)>>)

\* A token of three negative indices has been resolved against lists of two
\* or more entries.
C5_Witness ==
    /\ ret.done
    /\ call.token = <<IntPart(-1), IntPart(-2), IntPart(-1)>>
    /\ call.vlen = 2 /\ call.vtlen = 2 /\ call.vnlen = 2
    /\ ret.val = Some(<<1, Some(0), Some(1)>>)

-----------------------------------------------------------------------------
(* Properties of Framebuffer::put_pixel.                                   *)

-----------------------------------------------------------------------------
(* Properties of fill_triangle.                                            *)

C8_DegenerateWritesNothing ==
    [][Colinear(tri) /\ nops >= 1 => fb' = fb]_vars

\* A degenerate triangle through the centre of an in-bounds pixel, or with
\* coincident vertices, has been filled.
C8_Witness ==
    /\ Colinear(tri)
    /\ nops >= 2
    /\ \E p \in Pixels(fb) :
          /\ Side(tri[1], tri[2], Centre(p[1], p[2])) = 0
          /\ Side(tri[2], tri[3], Centre(p[1], p[2])) = 0
          /\ Side(tri[3], tri[1], Centre(p[1], p[2])) = 0

=============================================================================
